---- MODULE Spec2Model ----
(***************************************************************************)
(* Session multiplexer of the WordPress MCP gateway (src/src/sse.ts) and   *)
(* the tool handlers it dispatches to (src/src/server.ts).                 *)
(*                                                                         *)
(* Two stores: streamableSessions (POST|GET|DELETE /mcp) and               *)
(* legacySessions (GET /sse + POST /messages).  Every Express handler is   *)
(* one action: between its first line and the point where its effects on   *)
(* the stores are complete only microtasks run, so no other handler can    *)
(* interleave.  A tool call suspends in `await wp.<method>()`; its         *)
(* completion is the separate action BackendReturn.                        *)
(*                                                                         *)
(* The two transports come from @modelcontextprotocol/sdk, which is not    *)
(* part of the repository.  What the handlers observe of them is modelled  *)
(* at the call sites: SSEServerTransport draws its sessionId in the        *)
(* constructor; for StreamableHTTPServerTransport the handler itself tests *)
(* `transport.sessionId` after connect() (sse.ts:67), and both outcomes of *)
(* that test are modelled (atConnect).  The SDK release the package     *)
(* asks for (^1.26.0) draws the id while it handles the initialize         *)
(* request, i.e. the outcome FALSE.                                        *)
(*                                                                         *)
(* Spec is the HTTP process: startup (loadConfig, listen) and the routes   *)
(* that work on sessions.  ObservedSpec adds what leaves the sessions as   *)
(* they are: the /health probe and clients that vanish.                    *)
(* DispatchSpec is one server's tool dispatcher: schema validation, the    *)
(* handler of src/src/server.ts, the request WordPressClient builds, the   *)
(* log records written on the way and the envelope returned.               *)
(***************************************************************************)
EXTENDS Integers, Sequences, FiniteSets, TLC

\* ---- bounds ----
MaxIds == 2        \* randomUUID() values drawn in one run
MaxPairs == 1      \* server/transport pairs constructed by POST /mcp
MaxCalls == 2      \* tool calls dispatched in one run
MaxDispatch == 2   \* tools/call requests one dispatcher receives in one run

\* `undefined` session id: absent header / query parameter, or a transport
\* that has no session id yet
NoId == 0
Ids == 1..MaxIds
ReqIds == 0..MaxIds

McpBodies == {"initialize", "call"}
MsgBodies == {"call", "malformed"}

VARIABLES
  nextId,              \* number of randomUUID() values drawn so far
  streamableSessions,  \* Map<string, StreamableSession>: id -> pair index
  pairs,               \* every {server, transport} built by POST /mcp
  clientGone,          \* pairs whose client has dropped its connections
  legacySessions,      \* Map<string, SSEServerTransport>: id -> transport
  sseResponse,         \* per SSE transport: is the stream still attached
  stream,              \* per SSE transport: the events written to its res
  calls,               \* tool calls dispatched, by either adapter
  backendCalls,        \* number of fetch() calls issued to WordPress
  resp,                \* the HTTP response of the request handled last
  proc                 \* the process: "starting", "listening" or "exit1"

\* the tool dispatcher of one server, a record of
\*   dpc         "idle", "waiting" (in await fetch), "settled", "done"
\* and, while a call is being handled,
\*   dcall       the tools/call request being handled
\*   wpMode      how WordPress treats the request in flight
\*   outcome     what the fetch of the call in flight settled to
\*   request     the HTTP request WordPressClient.request built
\*   log         the records logged while handling the call
\*   envelope    the CallToolResult returned for the call
\*   wpCalls     number of requests WordPressClient has issued
\*   dispatched  number of tools/call requests received
VARIABLES disp

dpc == disp.dpc
dcall == disp.dcall
wpMode == disp.wpMode
outcome == disp.outcome
request == disp.request
log == disp.log
envelope == disp.envelope
wpCalls == disp.wpCalls
dispatched == disp.dispatched

sessVars == <<nextId, streamableSessions, pairs, clientGone, legacySessions,
              sseResponse, stream, calls, backendCalls, resp>>

vars == <<sessVars, proc, disp>>

\* ---- Map helpers ----
MapHas(m, k) == k \in DOMAIN m
MapSet(m, k, v) == [x \in DOMAIN m \cup {k} |-> IF x = k THEN v ELSE m[x]]
MapDelete(m, k) == [x \in DOMAIN m \ {k} |-> m[x]]
\* Map.get: undefined (NoId) for a key that is not there
MapGet(m, k) == IF k \in DOMAIN m THEN m[k] ELSE NoId

\* randomUUID(): a value never drawn before
RandomUUID == nextId + 1

\* ---- HTTP responses ----
\* status and body of the response, the session id it carries, the pair
\* whose transport handled the request (0: none) and whether the request
\* made the handler construct a new server/transport pair
Resp(route, status, text, sid, pair, created) ==
  [route |-> route, status |-> status, text |-> text, sid |-> sid,
   pair |-> pair, created |-> created]

\* res.status(400).json({ error: "유효하지 않은 세션입니다." })
InvalidSession(route) ==
  Resp(route, 400, "invalid session", NoId, 0, FALSE)

\* ---- JSON values of tool arguments ----
\* undefined (the key is absent), a number, a string, a boolean
Absent == [t |-> "undefined", n |-> 0, s |-> ""]
Num(n) == [t |-> "number", n |-> n, s |-> ""]
Str(s) == [t |-> "string", n |-> 0, s |-> s]
Bool(b) == [t |-> "boolean", n |-> IF b THEN 1 ELSE 0, s |-> ""]

\* the argument keys that are modelled; the other optional keys of the
\* schemas (search, slug, excerpt, author, ...) are treated by the code
\* exactly as the optional keys kept here
Fields == {"id", "page", "per_page", "status", "orderby", "order", "title",
           "content", "force", "extra"}

\* {}: no key present
Blank == [f \in Fields |-> Absent]

\* no call being handled, no request built, no envelope returned
NoCall == [cmd |-> "none"]
NoRequest == [method |-> "none"]
NoEnvelope == [kind |-> "none"]

\* the dispatcher between two tools/call requests: no call, no request, no
\* log records and no envelope are held
DispatchIdle(issued, received) ==
  [dpc |-> "idle", wpCalls |-> issued, dispatched |-> received]

\* the module's two empty stores; main() has not run yet
Init ==
  /\ proc = "starting"
  /\ disp = DispatchIdle(0, 0)
  /\ nextId = 0
  /\ streamableSessions = << >>
  /\ pairs = << >>
  /\ clientGone = {}
  /\ legacySessions = << >>
  /\ sseResponse = << >>
  /\ stream = << >>
  /\ calls = << >>
  /\ backendCalls = 0
  /\ resp = Resp("none", 0, "none", NoId, 0, FALSE)

\* ======================================================================
\* Startup and health
\* ======================================================================

\* an environment variable is not set, set to "", or set to a value
EnvValues == {"unset", "empty", "set"}
Envs == [WORDPRESS_BASE_URL : EnvValues, WORDPRESS_TOKEN : EnvValues,
         WORDPRESS_USERNAME : EnvValues, WORDPRESS_APP_PASSWORD : EnvValues]

\* JavaScript truthiness of process.env.X: undefined and "" are falsy
Truthy(v) == v = "set"

\* a loader that asks for the base URL only
loadConfigBaseUrlOnly(e) ==
  IF ~Truthy(e.WORDPRESS_BASE_URL) THEN "throws" ELSE "bearer"

\* loadConfig(): throws, or returns a config with bearer or basic auth
loadConfig(e) ==
  IF ~Truthy(e.WORDPRESS_BASE_URL) THEN "throws"
  ELSE IF Truthy(e.WORDPRESS_TOKEN) THEN "bearer"
  ELSE IF Truthy(e.WORDPRESS_USERNAME) /\ Truthy(e.WORDPRESS_APP_PASSWORD)
    THEN "basic"
  ELSE "throws"

\* main(): loadConfig() first; when it throws, main().catch logs and calls
\* process.exit(1) before express() or app.listen() has run; otherwise the
\* routes are registered and the listener is bound.
mainWith(e) ==
  proc' = IF loadConfig(e) = "throws" THEN "exit1" ELSE "listening"

\* the process is started in some environment
main ==
  /\ proc = "starting"
  /\ \E e \in Envs : mainWith(e)
  /\ UNCHANGED <<sessVars, disp>>

\* res.json({ status: "ok", sessions: { streamable, legacy } })
HealthResp(streamable, legacy) ==
  [route |-> "GET /health", status |-> 200, text |-> "ok", sid |-> NoId,
   pair |-> 0, created |-> FALSE, streamable |-> streamable,
   legacy |-> legacy]

\* Map.size
MapSize(m) == Cardinality(DOMAIN m)

\* app.get("/health")
GetHealth ==
  /\ proc = "listening"
  /\ resp' = HealthResp(MapSize(streamableSessions), MapSize(legacySessions))
  /\ UNCHANGED <<nextId, streamableSessions, pairs, clientGone,
                 legacySessions, sseResponse, stream, calls, backendCalls>>
  /\ UNCHANGED <<proc, disp>>

\* ======================================================================
\* Legacy SSE adapter: GET /sse + POST /messages
\* ======================================================================

Event(type, sid, call, inStore) ==
  [type |-> type, sid |-> sid, call |-> call, inStore |-> inStore]

\* the insertion left out
LegacySetMissing(store, t) == store

\* legacySessions.set(transport.sessionId, transport)
LegacySet(store, t) == MapSet(store, t, t)

\* server.connect(transport) -> transport.start(): the first event written
\* to res names the endpoint "/messages?sessionId=<id>".  inStore records
\* whether the store already held the id when the event was written.
SseStart(store, t) == <<Event("endpoint", t, 0, MapHas(store, t))>>

\* app.get("/sse"): construct the transport (its sessionId is drawn in the
\* constructor), insert it, register the close listener, connect.
GetSse ==
  /\ proc = "listening"
  /\ nextId < MaxIds
  /\ LET t == RandomUUID
         store1 == LegacySet(legacySessions, t)
     IN /\ nextId' = nextId + 1
        /\ legacySessions' = store1
        /\ sseResponse' = MapSet(sseResponse, t, TRUE)
        /\ stream' = MapSet(stream, t, SseStart(store1, t))
        /\ resp' = Resp("GET /sse", 200, "event-stream", t, 0,
                        FALSE)
  /\ UNCHANGED <<streamableSessions, pairs, clientGone, calls, backendCalls>>
  /\ UNCHANGED <<proc, disp>>

\* a close listener that leaves the entry in the store
LegacyCloseKeeps(store, t) == store

\* legacySessions.delete(transport.sessionId) in res.on("close")
LegacyCloseDelete(store, t) == MapDelete(store, t)

\* res "close": the listener of sse.ts:111 deletes the store entry, the
\* transport's own listener detaches the stream.
SseClose(t) ==
  /\ proc = "listening"
  /\ MapHas(sseResponse, t)
  /\ sseResponse[t]
  /\ sseResponse' = [sseResponse EXCEPT ![t] = FALSE]
  /\ legacySessions' = LegacyCloseDelete(legacySessions, t)
  /\ UNCHANGED <<nextId, streamableSessions, pairs, clientGone, stream,
                 calls, backendCalls, resp>>
  /\ UNCHANGED <<proc, disp>>

\* a guard that only tests for an absent sessionId
LegacyRejectsAbsentOnly(store, q) == q = NoId

\* a guard that looks the id up in the streamable store
LegacyRejectsOtherStore(store, q) ==
  q = NoId \/ ~MapHas(streamableSessions, q)

\* the guard of app.post("/messages"): !sessionId || !legacySessions.has(id)
LegacyRejects(store, q) == q = NoId \/ ~MapHas(store, q)

\* app.post("/messages"): reject an absent or unknown sessionId with 400;
\* otherwise transport.handlePostMessage: a message that does not parse is
\* answered 400, a tool call is handed to the server (the handler starts and
\* suspends in its backend call) and the POST is answered 202 "Accepted".
PostMessages(q, b) ==
  /\ proc = "listening"
  /\ (~LegacyRejects(legacySessions, q) /\ b = "call") => backendCalls < MaxCalls
  /\ IF LegacyRejects(legacySessions, q)
       THEN /\ resp' = InvalidSession("POST /messages")
            /\ UNCHANGED <<calls, backendCalls>>
       ELSE LET t == MapGet(legacySessions, q) IN
            IF t = NoId
              THEN /\ resp' = Resp("POST /messages", 500, "TypeError", NoId, 0,
                                   FALSE)
                   /\ UNCHANGED <<calls, backendCalls>>
            ELSE IF ~sseResponse[t]
              THEN /\ resp' = Resp("POST /messages", 500,
                                   "SSE connection not established", NoId, 0,
                                   FALSE)
                   /\ UNCHANGED <<calls, backendCalls>>
            ELSE IF b = "malformed"
              THEN /\ resp' = Resp("POST /messages", 400,
                                   "Invalid message", NoId, 0, FALSE)
                   /\ UNCHANGED <<calls, backendCalls>>
              ELSE /\ calls' = Append(calls, [sid |-> q, transport |-> t,
                                              state |-> "inflight",
                                              via |-> "sse"])
                   /\ backendCalls' = backendCalls + 1
                   /\ resp' = Resp("POST /messages", 202, "Accepted",
                                   NoId, 0, FALSE)
  /\ UNCHANGED <<nextId, streamableSessions, pairs, clientGone,
                 legacySessions, sseResponse, stream>>
  /\ UNCHANGED <<proc, disp>>

\* one server shared by all streams: it replies on the transport that was
\* connected last
ReplyTransportShared(c) ==
  CHOOSE t \in DOMAIN stream : \A u \in DOMAIN stream : u <= t

\* The transport a tool result is sent on: the one the call's server was
\* connected to (createServer + server.connect per GET /sse).
ReplyTransport(c) == calls[c].transport

\* a send that writes the event twice
SseSendTwice(events, c) ==
  events \o << Event("message", calls[c].sid, c, TRUE),
               Event("message", calls[c].sid, c, TRUE) >>

\* transport.send(message): one "message" event on the attached stream; with
\* no stream attached send() throws and the SDK drops the error.
SseSend(events, c) ==
  Append(events, Event("message", calls[c].sid, c, TRUE))

\* a send that writes to the stream whether or not it is still attached
DeliverAlways(events, c, attached) == SseSend(events, c)

\* server -> transport.send: with no stream attached send() throws, the SDK
\* passes the error to the server's onerror, which is not set: nothing is
\* written
Deliver(events, c, attached) ==
  IF attached THEN SseSend(events, c) ELSE events

\* The backend call of an in-flight tool call settles (fetch resolved ok, or
\* not ok -> request() throws -> errorResult); either way the handler
\* returns an envelope and the server sends it on its transport: as an event
\* on the SSE stream, or as the body of the POST /mcp that made the call
\* unless that transport has been closed.
BackendReturn(c) ==
  /\ proc = "listening"
  /\ c \in 1..Len(calls)
  /\ calls[c].state = "inflight"
  /\ calls' = [calls EXCEPT ![c].state = "done"]
  /\ IF calls[c].via = "sse"
       THEN LET t == ReplyTransport(c) IN
            /\ stream' = [stream EXCEPT ![t] = Deliver(@, c, sseResponse[t])]
            /\ UNCHANGED resp
       ELSE LET p == calls[c].transport IN
            /\ resp' = IF pairs[p].closed THEN resp
                       ELSE Resp("POST /mcp", 200, "envelope", calls[c].sid,
                                 p, FALSE)
            /\ UNCHANGED stream
  /\ UNCHANGED <<nextId, streamableSessions, pairs, clientGone,
                 legacySessions, sseResponse, backendCalls>>
  /\ UNCHANGED <<proc, disp>>

\* ======================================================================
\* Streamable HTTP adapter: POST | GET | DELETE /mcp
\* ======================================================================

\* the test of app.post("/mcp"): sessionId && streamableSessions.has(id)
StreamableRoutes(store, h) == h # NoId /\ MapHas(store, h)

\* a guard that only tests for an absent header
StreamableRejectsAbsentOnly(store, h) == h = NoId

\* the guard of app.get/app.delete("/mcp"):
\* !sessionId || !streamableSessions.has(sessionId)
StreamableRejects(store, h) == h = NoId \/ ~MapHas(store, h)

\* new StreamableHTTPServerTransport({sessionIdGenerator}) followed by
\* server.connect(transport): atConnect says whether the transport already
\* reports a sessionId when connect() has resolved.
NewTransport(atConnect) ==
  [sessionId |-> IF atConnect THEN RandomUUID ELSE NoId,
   initialized |-> FALSE, closed |-> FALSE]

\* an insertion that does not test transport.sessionId
StreamableSetUntested(store, tr, p) == MapSet(store, tr.sessionId, p)

\* if (transport.sessionId) streamableSessions.set(transport.sessionId, ...)
StreamableSet(store, tr, p) ==
  IF tr.sessionId # NoId THEN MapSet(store, tr.sessionId, p) ELSE store

\* transport.onclose: const id = transport.sessionId; if (id) delete(id)
StreamableOnClose(store, tr) ==
  IF tr.sessionId # NoId THEN MapDelete(store, tr.sessionId) ELSE store

\* transport.handleRequest for a POST: an initialize request gives the
\* transport its session id (sessionIdGenerator) unless it has one, and the
\* response carries it; any other request needs an initialized transport and
\* the transport's own id in the header.  fresh is the next randomUUID().
TransportPost(tr, h, b, fresh) ==
  IF b = "initialize"
    THEN IF tr.initialized
           THEN [tr |-> tr, status |-> 400, text |-> "already initialized",
                 sid |-> NoId, backend |-> FALSE]
           ELSE LET id == IF tr.sessionId = NoId THEN fresh ELSE tr.sessionId
                IN [tr |-> [tr EXCEPT !.sessionId = id, !.initialized = TRUE],
                    status |-> 200, text |-> "initialize result",
                    sid |-> id, backend |-> FALSE]
  ELSE IF ~tr.initialized
    THEN [tr |-> tr, status |-> 400, text |-> "server not initialized",
          sid |-> NoId, backend |-> FALSE]
  ELSE IF h = NoId
    THEN [tr |-> tr, status |-> 400, text |-> "session id required",
          sid |-> NoId, backend |-> FALSE]
  ELSE IF h # tr.sessionId
    THEN [tr |-> tr, status |-> 404, text |-> "session not found",
          sid |-> NoId, backend |-> FALSE]
  ELSE [tr |-> tr, status |-> 200, text |-> "event-stream",
        sid |-> tr.sessionId, backend |-> TRUE]

\* transport.handleRequest for GET and DELETE: the same session validation
TransportValid(tr, h) == tr.initialized /\ h # NoId /\ h = tr.sessionId

\* app.post("/mcp")
PostMcp(h, b, atConnect) ==
  /\ proc = "listening"
  /\ IF StreamableRoutes(streamableSessions, h)
    THEN LET p == streamableSessions[h]
             r == TransportPost(pairs[p], h, b, RandomUUID)
         IN /\ atConnect = FALSE
            /\ r.tr.sessionId # pairs[p].sessionId => nextId < MaxIds
            /\ r.backend => backendCalls < MaxCalls
            /\ pairs' = [pairs EXCEPT ![p] = r.tr]
            /\ nextId' = IF r.tr.sessionId # pairs[p].sessionId
                           THEN nextId + 1 ELSE nextId
            /\ backendCalls' = IF r.backend THEN backendCalls + 1
                               ELSE backendCalls
            /\ calls' = IF r.backend
                          THEN Append(calls, [sid |-> h, transport |-> p,
                                              state |-> "inflight",
                                              via |-> "mcp"])
                          ELSE calls
            /\ resp' = Resp("POST /mcp", r.status, r.text, r.sid, p,
                            FALSE)
            /\ UNCHANGED <<streamableSessions, clientGone, legacySessions,
                           sseResponse, stream>>
    ELSE LET p == Len(pairs) + 1
             tr0 == NewTransport(atConnect)
             drawn == IF atConnect THEN nextId + 1 ELSE nextId
             store1 == StreamableSet(streamableSessions, tr0, p)
             r == TransportPost(tr0, h, b, drawn + 1)
             drawn2 == IF r.tr.sessionId # tr0.sessionId THEN drawn + 1
                       ELSE drawn
         IN /\ Len(pairs) < MaxPairs
            /\ drawn2 <= MaxIds
            /\ pairs' = Append(pairs, r.tr)
            /\ nextId' = drawn2
            /\ streamableSessions' = store1
            /\ backendCalls' = IF r.backend THEN backendCalls + 1
                               ELSE backendCalls
            /\ resp' = Resp("POST /mcp", r.status, r.text, r.sid, p,
                            TRUE)
            /\ UNCHANGED <<clientGone, legacySessions, sseResponse, stream,
                           calls>>
  /\ UNCHANGED <<proc, disp>>

\* app.get("/mcp")
GetMcp(h) ==
  /\ proc = "listening"
  /\ IF StreamableRejects(streamableSessions, h)
       THEN resp' = InvalidSession("GET /mcp")
       ELSE LET p == MapGet(streamableSessions, h) IN
            resp' = IF p = NoId
                      THEN Resp("GET /mcp", 500, "TypeError", NoId, 0, FALSE)
                    ELSE IF TransportValid(pairs[p], h)
                      THEN Resp("GET /mcp", 200, "event-stream",
                                NoId, p, FALSE)
                      ELSE Resp("GET /mcp", 400,
                                "server not initialized", NoId, p, FALSE)
  /\ UNCHANGED <<nextId, streamableSessions, pairs, clientGone,
                 legacySessions, sseResponse, stream, calls, backendCalls>>
  /\ UNCHANGED <<proc, disp>>

\* app.delete("/mcp"): the transport handles the DELETE (a valid one closes
\* the transport, which runs onclose), then streamableSessions.delete(id)
DeleteMcp(h) ==
  /\ proc = "listening"
  /\ IF StreamableRejects(streamableSessions, h)
       THEN /\ resp' = InvalidSession("DELETE /mcp")
            /\ UNCHANGED <<streamableSessions, pairs>>
       ELSE LET p == MapGet(streamableSessions, h)
                ok == TransportValid(pairs[p], h)
                store1 == IF ok
                            THEN StreamableOnClose(streamableSessions, pairs[p])
                            ELSE streamableSessions
            IN IF p = NoId
                 THEN /\ resp' = Resp("DELETE /mcp", 500, "TypeError", NoId, 0,
                                      FALSE)
                      /\ UNCHANGED <<streamableSessions, pairs>>
               ELSE
               /\ pairs' = IF ok THEN [pairs EXCEPT ![p].closed = TRUE]
                           ELSE pairs
               /\ streamableSessions' = MapDelete(store1, h)
               /\ resp' = IF ok
                            THEN Resp("DELETE /mcp", 200,
                                      "session closed", NoId, p, FALSE)
                            ELSE Resp("DELETE /mcp", 400,
                                      "server not initialized", NoId, p, FALSE)
  /\ UNCHANGED <<nextId, clientGone, legacySessions, sseResponse, stream,
                 calls, backendCalls>>
  /\ UNCHANGED <<proc, disp>>

\* The client of a stored streamable session drops its connections for
\* good.  No listener for this is registered in app.post("/mcp"):
\* transport.onclose runs only when the transport itself is closed.
StreamableClientGone(p) ==
  /\ proc = "listening"
  /\ p \in 1..Len(pairs)
  /\ \E k \in DOMAIN streamableSessions : streamableSessions[k] = p
  /\ p \notin clientGone
  /\ clientGone' = clientGone \cup {p}
  /\ UNCHANGED <<nextId, streamableSessions, pairs, legacySessions,
                 sseResponse, stream, calls, backendCalls, resp>>
  /\ UNCHANGED <<proc, disp>>

\* ======================================================================

Next ==
  \/ main
  \/ GetSse
  \/ \E t \in Ids : SseClose(t)
  \/ \E q \in ReqIds, b \in MsgBodies : PostMessages(q, b)
  \/ \E c \in 1..MaxCalls : BackendReturn(c)
  \/ \E h \in ReqIds, b \in McpBodies, atConnect \in BOOLEAN :
       PostMcp(h, b, atConnect)
  \/ \E h \in ReqIds : GetMcp(h)
  \/ \E h \in ReqIds : DeleteMcp(h)

Spec == Init /\ [][Next]_vars

\* the same process observed from outside: a monitor probes /health, and
\* clients of streamable sessions vanish without the process noticing
ObservedNext ==
  \/ Next
  \/ GetHealth
  \/ \E p \in 1..MaxPairs : StreamableClientGone(p)

ObservedSpec == Init /\ [][ObservedNext]_vars

\* ======================================================================
\* Tool dispatcher: McpServer.tool registrations of createServer and the
\* WordPressClient methods their handlers call
\* ======================================================================

Commands == {"listPosts", "getPost", "createPost", "updatePost",
             "deletePost", "deleteCategory", "deleteTag"}

Deletes == {"deletePost", "deleteCategory", "deleteTag"}

\* ---- zod ----
\* an enum that admits every string
ZEnumAnyString(v, allowed) == v.t = "string"

\* z.enum([...])
ZEnum(v, allowed) == v.t = "string" /\ v.s \in allowed

\* z.number().int().min(1)
ZIntMin1(v) == v.t = "number" /\ v.n >= 1

\* z.number().int().min(1).max(100)
ZInt1To100(v) == v.t = "number" /\ v.n >= 1 /\ v.n <= 100

\* z.string()
ZString(v) == v.t = "string"

\* z.boolean()
ZBoolean(v) == v.t = "boolean"

\* .optional(): undefined passes, anything else must pass the inner schema
Optional(v, ok) == v = Absent \/ ok

ListStatus == {"publish", "draft", "pending", "private", "trash"}
WriteStatus == {"publish", "draft", "pending", "private"}
OrderBy == {"date", "id", "title", "slug", "modified"}
Order == {"asc", "desc"}

\* the keys of the raw shape registered for each tool
SchemaKeys(cmd) ==
  CASE cmd = "listPosts" -> {"page", "per_page", "status", "orderby", "order"}
    [] cmd = "getPost" -> {"id"}
    [] cmd = "createPost" -> {"title", "content", "status"}
    [] cmd = "updatePost" -> {"id", "title", "content", "status"}
    [] cmd \in Deletes -> {"id", "force"}

\* does the raw shape registered for the tool accept the arguments
Schema(cmd, a) ==
  CASE cmd = "listPosts" ->
         /\ Optional(a.page, ZIntMin1(a.page))
         /\ Optional(a.per_page, ZInt1To100(a.per_page))
         /\ Optional(a.status, ZEnum(a.status, ListStatus))
         /\ Optional(a.orderby, ZEnum(a.orderby, OrderBy))
         /\ Optional(a.order, ZEnum(a.order, Order))
    [] cmd = "getPost" -> ZIntMin1(a.id)
    [] cmd = "createPost" ->
         /\ ZString(a.title)
         /\ ZString(a.content)
         /\ Optional(a.status, ZEnum(a.status, WriteStatus))
    [] cmd = "updatePost" ->
         /\ ZIntMin1(a.id)
         /\ Optional(a.title, ZString(a.title))
         /\ Optional(a.content, ZString(a.content))
         /\ Optional(a.status, ZEnum(a.status, WriteStatus))
    [] cmd \in Deletes ->
         /\ ZIntMin1(a.id)
         /\ Optional(a.force, ZBoolean(a.force))

\* z.object(shape).parse: the keys of the shape are kept, any other key is
\* stripped; no key is given a value (no schema has .default())
Parsed(cmd, a) ==
  [f \in Fields |-> IF f \in SchemaKeys(cmd) THEN a[f] ELSE Absent]

\* ---- the arguments clients send ----
IdValues == {Absent, Num(0), Num(1), Str("1")}
PageValues == {Absent, Num(0), Num(1), Num(2)}
PerPageValues == {Absent, Num(0), Num(10), Num(100), Num(101)}
StatusValues == {Absent, Str("draft"), Str("trash"), Num(1)}
OrderByValues == {Absent, Str("date"), Str("rand")}
OrderValues == {Absent, Str("desc"), Str("asc"), Str("up")}
TitleValues == {Absent, Str("a title"), Num(1)}
ContentValues == {Absent, Str("the full text of the post"), Bool(TRUE)}
ForceValues == {Absent, Bool(FALSE), Bool(TRUE), Str("true")}
ExtraValues == {Absent, Str("x")}

ArgsOf(cmd) ==
  CASE cmd = "listPosts" ->
         {[Blank EXCEPT !.page = p, !.per_page = n, !.status = st,
                        !.orderby = ob, !.order = o] :
            p \in PageValues, n \in PerPageValues, st \in StatusValues,
            ob \in OrderByValues, o \in OrderValues}
    [] cmd = "getPost" ->
         {[Blank EXCEPT !.id = i, !.extra = x] :
            i \in IdValues, x \in ExtraValues}
    [] cmd = "createPost" ->
         {[Blank EXCEPT !.title = t, !.content = c, !.status = st] :
            t \in TitleValues, c \in ContentValues, st \in StatusValues}
    [] cmd = "updatePost" ->
         {[Blank EXCEPT !.id = i, !.title = t, !.content = c, !.status = st] :
            i \in IdValues, t \in TitleValues, c \in ContentValues,
            st \in StatusValues}
    [] cmd \in Deletes ->
         {[Blank EXCEPT !.id = i, !.force = f] :
            i \in IdValues, f \in ForceValues}

\* ---- WordPressClient ----
\* method, path, the id interpolated into the path, and the keys that are
\* sent: query parameters (GET, DELETE) or keys of the JSON body (POST,
\* PATCH).  A key whose value is undefined is not sent in either.
Req(method, path, id, params) ==
  [method |-> method, path |-> path, id |-> id, params |-> params]

\* url.searchParams.set(key, String(value)) for every value not undefined
Query(params) ==
  [f \in Fields |->
     IF params[f].t = "number" THEN Str(ToString(params[f].n))
     ELSE IF params[f].t = "boolean"
       THEN Str(IF params[f].n = 1 THEN "true" ELSE "false")
     ELSE params[f]]

\* x ?? d
Nullish(x, d) == IF x = Absent THEN d ELSE x

\* params.status || "draft"
OrDraft(x) == IF x = Absent \/ x = Str("") THEN Str("draft") ELSE x

\* force ? "true" : undefined
ForceParam(force) == IF force = Bool(TRUE) THEN Str("true") ELSE Absent

DeletePath(cmd) ==
  CASE cmd = "deletePost" -> "/posts/{id}"
    [] cmd = "deleteCategory" -> "/categories/{id}"
    [] cmd = "deleteTag" -> "/tags/{id}"

\* the request the handler of cmd makes WordPressClient issue for the
\* parsed arguments a
ClientRequest(cmd, a) ==
  CASE cmd = "listPosts" ->
         Req("GET", "/posts", Absent,
             Query([Blank EXCEPT !.page = a.page, !.per_page = a.per_page,
                                 !.status = a.status, !.orderby = a.orderby,
                                 !.order = a.order]))
    [] cmd = "getPost" -> Req("GET", "/posts/{id}", a.id, Blank)
    [] cmd = "createPost" ->
         Req("POST", "/posts", Absent,
             [Blank EXCEPT !.title = a.title, !.content = a.content,
                           !.status = OrDraft(a.status)])
    [] cmd = "updatePost" ->
         Req("PATCH", "/posts/{id}", a.id, [a EXCEPT !.id = Absent])
    [] cmd \in Deletes ->
         Req("DELETE", DeletePath(cmd), a.id,
             Query([Blank EXCEPT !.force =
                      ForceParam(Nullish(a.force, Bool(FALSE)))]))

\* ---- logger ----
\* a record written to stderr: its level, the call site, the command it
\* names ("" when it names none) and the post content it prints (Absent
\* when it prints none).  log() writes every level.
LogRec(level, site, cmd, content) ==
  [level |-> level, site |-> site, cmd |-> cmd, content |-> content]

\* logger.info at the top of each handler.  createPost logs a selection of
\* its parameters without content; updatePost logs everything but id.
HandlerLog(cmd, a) ==
  LogRec("info", "handler", cmd,
         IF cmd = "updatePost" THEN a.content ELSE Absent)

\* request(): logger.debug of method and URL, and for POST/PUT/PATCH with a
\* body logger.debug of the serialized body
RequestLogs(r) ==
  <<LogRec("debug", "request url", "", Absent)>>
  \o (IF r.method \in {"POST", "PUT", "PATCH"}
        THEN <<LogRec("debug", "request body", "", r.params.content)>>
        ELSE << >>)

\* ---- what the backend does ----
\* answers: the fetch settles; silent: nothing is ever sent back, undici's
\* headersTimeout rejects the fetch; drips: the headers arrive and the body
\* keeps arriving slowly, no timer of the runtime fires and the code sets
\* none
WpModes == {"answers", "silent", "drips"}

\* a 2xx answer of the expected shape, a 2xx answer of another shape, a 2xx
\* answer that is not JSON, two error statuses, a rejected fetch
Outcomes == {"ok", "badShape", "badJson", "http404", "http500", "network"}

HttpErrors == {"http404", "http500"}

\* request(): fetch rejects, !response.ok throws, response.json() rejects
ClientRaises(o) == o \in HttpErrors \cup {"badJson", "network"}

\* cleanPost / posts.map on an answer of another shape throws a TypeError
ShapingThrows(o) == o = "badShape"

\* response.status and the reason the backend reported (parsed.message ||
\* errorBody)
WpStatus(o) == IF o = "http404" THEN 404 ELSE IF o = "http500" THEN 500 ELSE 0
WpReason(o) ==
  IF o = "http404" THEN "rest_post_invalid_id"
  ELSE IF o = "http500" THEN "internal_server_error"
  ELSE "none"

\* err.message of what was thrown inside the handler's try block
Thrown(o) ==
  CASE o \in HttpErrors -> [status |-> WpStatus(o), reason |-> WpReason(o)]
    [] o = "badJson" -> [status |-> 0, reason |-> "Unexpected token"]
    [] o = "network" -> [status |-> 0, reason |-> "fetch failed"]
    [] o = "badShape" -> [status |-> 0, reason |-> "Cannot read properties"]

\* an error result without the flag
errorResultNoFlag(msg) ==
  [isError |-> FALSE, kind |-> "message", status |-> msg.status,
   reason |-> msg.reason]

\* errorResult(err)
errorResult(msg) ==
  [isError |-> TRUE, kind |-> "message", status |-> msg.status,
   reason |-> msg.reason]

\* { content: [{ type: "text", text: jsonText(...) }] }
SuccessResult ==
  [isError |-> FALSE, kind |-> "result", status |-> 0, reason |-> "none"]

\* McpServer answers arguments the schema refuses with an error result of
\* its own; the handler is not called
InvalidArguments == errorResult([status |-> 0, reason |-> "Invalid arguments"])

\* try { await wp.X(...); return success } catch (err) { return errorResult }
HandlerResult(o) ==
  IF ClientRaises(o) \/ ShapingThrows(o) THEN errorResult(Thrown(o))
  ELSE SuccessResult

\* records logged after the fetch has settled: request() logs an error for
\* a non-ok answer, createPost logs the author it got back
SettledLogs(cmd, o) ==
  IF o \in HttpErrors THEN <<LogRec("error", "request error", "", Absent)>>
  ELSE IF cmd = "createPost" /\ ~ClientRaises(o)
    THEN <<LogRec("info", "createPost result", cmd, Absent)>>
  ELSE << >>

\* ---- actions ----
\* tools/call: McpServer validates the arguments against the tool's schema.
\* Refused: an error result, the handler does not run.  Accepted: the
\* handler logs, calls the client, the client builds and logs the request
\* and the handler suspends in `await fetch`.
CallTool(cmd, a, m) ==
  /\ dpc = "idle"
  /\ dispatched < MaxDispatch
  /\ disp' =
       IF ~Schema(cmd, a)
         THEN [dpc |-> "done", dcall |-> [cmd |-> cmd, args |-> a],
               wpMode |-> "none", outcome |-> "none", request |-> NoRequest,
               log |-> << >>, envelope |-> InvalidArguments,
               wpCalls |-> wpCalls, dispatched |-> dispatched + 1]
         ELSE LET r == ClientRequest(cmd, Parsed(cmd, a)) IN
              [dpc |-> "waiting", dcall |-> [cmd |-> cmd, args |-> a],
               wpMode |-> m, outcome |-> "none", request |-> r,
               log |-> <<HandlerLog(cmd, Parsed(cmd, a))>> \o RequestLogs(r),
               envelope |-> NoEnvelope,
               wpCalls |-> wpCalls + 1, dispatched |-> dispatched + 1]
  /\ UNCHANGED <<sessVars, proc>>

\* WordPress answers, or the connection fails: the fetch settles
FetchSettles(o) ==
  /\ dpc = "waiting"
  /\ wpMode = "answers"
  /\ disp' = [disp EXCEPT !.outcome = o, !.dpc = "settled"]
  /\ UNCHANGED <<sessVars, proc>>

\* WordPress stays silent: undici's headers timeout rejects the fetch
HeadersTimeout ==
  /\ dpc = "waiting"
  /\ wpMode = "silent"
  /\ disp' = [disp EXCEPT !.outcome = "network", !.dpc = "settled"]
  /\ UNCHANGED <<sessVars, proc>>

\* the handler resumes after its await and returns the envelope
HandlerResume ==
  /\ dpc = "settled"
  /\ disp' = [disp EXCEPT !.envelope = HandlerResult(outcome),
                          !.log = @ \o SettledLogs(dcall.cmd, outcome),
                          !.dpc = "done"]
  /\ UNCHANGED <<sessVars, proc>>

\* the envelope has been sent; the dispatcher takes the next request
NextCall ==
  /\ dpc = "done"
  /\ disp' = DispatchIdle(wpCalls, dispatched)
  /\ UNCHANGED <<sessVars, proc>>

DispatchInit ==
  /\ proc = "listening"
  /\ disp = DispatchIdle(0, 0)
  /\ nextId = 0
  /\ streamableSessions = << >>
  /\ pairs = << >>
  /\ clientGone = {}
  /\ legacySessions = << >>
  /\ sseResponse = << >>
  /\ stream = << >>
  /\ calls = << >>
  /\ backendCalls = 0
  /\ resp = Resp("none", 0, "none", NoId, 0, FALSE)

DispatchNext ==
  \/ \E cmd \in Commands, m \in WpModes : \E a \in ArgsOf(cmd) :
       CallTool(cmd, a, m)
  \/ \E o \in Outcomes : FetchSettles(o)
  \/ HeadersTimeout
  \/ HandlerResume
  \/ NextCall

DispatchSpec == DispatchInit /\ [][DispatchNext]_vars

\* The event loop runs a continuation that is ready; a backend that answers
\* does answer; the runtime's headers timer fires.
DispatchFair ==
  /\ DispatchInit
  /\ [][DispatchNext]_vars
  /\ WF_vars(\E o \in Outcomes : FetchSettles(o))
  /\ WF_vars(HeadersTimeout)
  /\ WF_vars(HandlerResume)
  /\ WF_vars(NextCall)

\* ======================================================================
\* Properties
\* ======================================================================

\* the "message" events of call c among events
EventsOf(events, c) ==
  {i \in 1..Len(events) : events[i].type = "message" /\ events[i].call = c}

\* the number of "message" events of call c over all streams
Delivered(c) ==
  LET RECURSIVE Sum(_)
      Sum(T) == IF T = {} THEN 0
                ELSE LET t == CHOOSE x \in T : TRUE
                     IN Cardinality(EventsOf(stream[t], c)) + Sum(T \ {t})
  IN Sum(DOMAIN stream)

\* C1: a POST /mcp whose session id is not in the streamable store is
\* answered with an invalid-session error, leaves the set of stored sessions
\* as it was and constructs no server/transport pair.
UnknownIdCreatesNoPair ==
  [][\A h \in Ids, b \in McpBodies, a \in BOOLEAN :
       (PostMcp(h, b, a) /\ h \notin DOMAIN streamableSessions)
       => /\ resp'.status \in {400, 404}
          /\ Len(pairs') = Len(pairs)
          /\ DOMAIN streamableSessions' = DOMAIN streamableSessions]_vars

\* C2: a POST /mcp without a session id that initializes a session creates
\* exactly one stored session: the response carries its id and the store
\* holds the new pair under that id once the request has been handled.
InitializeStoresSession ==
  [][\A a \in BOOLEAN :
       PostMcp(NoId, "initialize", a)
       => /\ resp'.sid # NoId
          /\ resp'.sid \in DOMAIN streamableSessions'
          /\ streamableSessions'[resp'.sid] = resp'.pair
          /\ Cardinality(DOMAIN streamableSessions')
               = Cardinality(DOMAIN streamableSessions) + 1]_vars

\* C3: on every event stream the result events appear in the order in which
\* their calls were dispatched (calls are numbered in dispatch order).
StreamKeepsDispatchOrder ==
  \A t \in DOMAIN stream :
    \A i, j \in 1..Len(stream[t]) :
      (i < j /\ stream[t][i].type = "message" /\ stream[t][j].type = "message")
      => stream[t][i].call < stream[t][j].call

\* C4: every result event on a stream belongs to a call that was submitted
\* with the session id of the GET /sse that opened this stream.
ResultOnlyOnOwnStream ==
  \A t \in DOMAIN stream :
    \A i \in 1..Len(stream[t]) :
      stream[t][i].type = "message"
      => /\ stream[t][i].call \in 1..Len(calls)
         /\ calls[stream[t][i].call].sid = t

\* C4 witness: two sessions are live at once and each stream carries a result
TwoStreamsWithResults ==
  \E t, u \in DOMAIN stream :
    /\ t # u
    /\ \E i \in 1..Len(stream[t]) : stream[t][i].type = "message"
    /\ \E j \in 1..Len(stream[u]) : stream[u][j].type = "message"

\* C5: a call never has more than one result event over all streams, has none
\* while its backend call is pending, and has exactly one, on the stream of
\* its session, once it has completed on a stream that is still attached; the
\* response to a POST /messages carries an acknowledgement or an error,
\* never a result envelope or a session id.
OneEventPerCallAckOnly ==
  /\ \A c \in 1..Len(calls) :
       /\ Delivered(c) <= 1
       /\ calls[c].state = "inflight" => Delivered(c) = 0
       /\ (calls[c].via = "sse" /\ calls[c].state = "done"
             /\ sseResponse[calls[c].sid])
            => Cardinality(EventsOf(stream[calls[c].sid], c)) = 1
  /\ resp.route = "POST /messages"
       => /\ resp.text \in {"Accepted", "invalid session", "Invalid message",
                            "SSE connection not established", "TypeError"}
          /\ resp.text = "Accepted" <=> resp.status = 202
          /\ resp.sid = NoId

\* C5 witness: a completed call whose result sits on its still-open stream,
\* while the last POST /messages was acknowledged
CallDeliveredOnce ==
  /\ resp.route = "POST /messages" /\ resp.status = 202
  /\ \E c \in 1..Len(calls) :
       /\ calls[c].via = "sse"
       /\ calls[c].state = "done"
       /\ sseResponse[calls[c].sid]
       /\ Delivered(c) = 1

\* C6: a POST /messages whose sessionId is absent or not a key of the legacy
\* store is answered 400 invalid session; it dispatches no call, writes no
\* event, makes no backend call and changes neither store.
UnknownLegacyIdRejected ==
  [][resp'.route = "POST /messages"
     => \/ /\ resp'.status = 400
           /\ resp'.text = "invalid session"
           /\ UNCHANGED <<legacySessions, streamableSessions, pairs,
                          sseResponse, stream, calls, backendCalls>>
        \/ \A q \in ReqIds, b \in MsgBodies :
             (q = NoId \/ q \notin DOMAIN legacySessions)
             => ~PostMessages(q, b)]_vars

\* C6 witness: a POST /messages was rejected while a legacy session is live
LegacyPostRejected ==
  /\ resp.route = "POST /messages"
  /\ resp.text = "invalid session"
  /\ DOMAIN legacySessions # {}

\* C7: the first event of every stream is the endpoint event carrying the
\* stream's own session id, it is the only such event, and the id was
\* already in the legacy store when the event was written.
IdPushedAfterInsert ==
  \A t \in DOMAIN stream :
    /\ Len(stream[t]) >= 1
    /\ stream[t][1].type = "endpoint"
    /\ stream[t][1].sid = t
    /\ \A i \in 1..Len(stream[t]) :
         stream[t][i].type = "endpoint" => (i = 1 /\ stream[t][i].inStore)

\* C7 witness: a stream has been opened and a result followed the id
EndpointEventPushed ==
  \E t \in DOMAIN stream : Len(stream[t]) >= 2 /\ stream[t][1].inStore

\* C8: when a stream closes its session leaves the legacy store, after every
\* step each legacy store entry has its stream attached, and a POST /messages
\* naming a session whose stream has closed is rejected as invalid session.
ClosedStreamLeavesStore ==
  [][/\ \A t \in DOMAIN sseResponse :
          (sseResponse[t] /\ ~sseResponse'[t]) => t \notin DOMAIN legacySessions'
     /\ \A k \in DOMAIN legacySessions' :
          /\ legacySessions'[k] \in DOMAIN sseResponse'
          /\ sseResponse'[legacySessions'[k]]
     /\ resp'.route = "POST /messages"
          => \/ resp'.status = 400 /\ resp'.text = "invalid session"
             \/ \A q \in DOMAIN sseResponse, b \in MsgBodies :
                  ~sseResponse[q] => ~PostMessages(q, b)]_vars

\* C8 witness: a stream closed before any call was made on it, its session is
\* gone from the store and a POST /messages has been rejected since
StreamClosedAndRemoved ==
  /\ \E t \in DOMAIN sseResponse :
       /\ ~sseResponse[t]
       /\ Len(stream[t]) = 1
       /\ t \notin DOMAIN legacySessions
  /\ resp.route = "POST /messages"
  /\ resp.text = "invalid session"

\* C9: no session stays in the streamable store after its client has dropped
\* its connections (every /mcp handler runs to completion in one step, so in
\* every state nothing is pending that could still remove it).
GoneClientNotStored ==
  \A k \in DOMAIN streamableSessions : streamableSessions[k] \notin clientGone

\* C10: a DELETE /mcp for a session id that an earlier DELETE has already
\* torn down is a no-op: it changes no store and is not answered with an
\* error.
SecondDeleteIsNoError ==
  [][\A h \in Ids :
       (/\ DeleteMcp(h)
        /\ \E p \in 1..Len(pairs) : pairs[p].sessionId = h /\ pairs[p].closed)
       => /\ resp'.status < 400
          /\ UNCHANGED <<streamableSessions, legacySessions>>]_vars

\* C11: a GET /mcp or DELETE /mcp whose session id is absent or not in the
\* streamable store is answered 400 invalid session, reaches no transport
\* and changes neither store; one whose id is in the store is handed to the
\* transport stored under that id.
McpNeedsKnownSession ==
  [][resp'.route \in {"GET /mcp", "DELETE /mcp"}
     => /\ \/ /\ resp'.status = 400
              /\ resp'.text = "invalid session"
              /\ resp'.pair = 0
              /\ UNCHANGED <<streamableSessions, legacySessions, pairs>>
           \/ \A h \in ReqIds :
                (h = NoId \/ h \notin DOMAIN streamableSessions)
                => ~(GetMcp(h) \/ DeleteMcp(h))
        /\ \A h \in DOMAIN streamableSessions :
             resp'.pair = streamableSessions[h]
             \/ ~(GetMcp(h) \/ DeleteMcp(h))]_vars

\* C11 witness: a GET /mcp was handed to the transport of a stored session
McpRoutedToSession ==
  /\ resp.route = "GET /mcp"
  /\ resp.status = 200
  /\ resp.pair # 0

\* the session of call c has been torn down
TornDown(c) ==
  IF calls[c].via = "sse" THEN ~sseResponse[calls[c].transport]
  ELSE pairs[calls[c].transport].closed

\* C12: a step that removes a session from a store leaves the calls in
\* flight as they are; when a call completes after its session was torn down
\* the call ends, nothing is written to any stream or response, no store
\* changes and no transport changes.
TeardownWithCallInFlight ==
  [][/\ (DOMAIN legacySessions' # DOMAIN legacySessions
          \/ DOMAIN streamableSessions' # DOMAIN streamableSessions)
         => calls' = calls
     /\ calls' # calls
         => \A c \in 1..Len(calls) :
              (TornDown(c) /\ BackendReturn(c))
              => /\ calls'[c].state = "done"
                 /\ UNCHANGED <<legacySessions, streamableSessions, stream,
                                sseResponse, pairs, resp>>]_vars

\* C12 witness: on each adapter a call has completed after its session was
\* torn down, and no event was written for either
CallsOutlivedTheirSessions ==
  \E c, d \in 1..Len(calls) :
    /\ calls[c].via = "sse" /\ calls[d].via = "mcp"
    /\ calls[c].state = "done" /\ calls[d].state = "done"
    /\ TornDown(c) /\ TornDown(d)
    /\ Delivered(c) = 0
    /\ calls[c].sid \notin DOMAIN legacySessions
    /\ calls[d].sid \notin DOMAIN streamableSessions

\* ---- dispatcher ----

\* C13: a dispatched call whose handler waits for the backend eventually
\* yields an envelope, whatever the backend does.
DispatchedCallYieldsEnvelope == (dpc = "waiting") ~> (dpc = "done")

\* the parameters a command requires
Required(cmd) ==
  CASE cmd = "listPosts" -> {}
    [] cmd = "createPost" -> {"title", "content"}
    [] OTHER -> {"id"}

\* the primitive type of each parameter
PrimitiveType(f) ==
  CASE f \in {"id", "page", "per_page"} -> "number"
    [] f = "force" -> "boolean"
    [] OTHER -> "string"

\* the values an enumerated parameter may take
EnumOf(cmd, f) ==
  CASE f = "status" -> IF cmd = "listPosts" THEN ListStatus ELSE WriteStatus
    [] f = "orderby" -> OrderBy
    [] f = "order" -> Order

\* a call that misses a required parameter, has a parameter of the wrong
\* primitive type, violates a numeric bound or leaves an enumerated set
InvalidCall(cmd, a) ==
  \E f \in SchemaKeys(cmd) :
    \/ f \in Required(cmd) /\ a[f] = Absent
    \/ a[f] # Absent /\ a[f].t # PrimitiveType(f)
    \/ a[f].t = "number" /\ a[f].n < 1
    \/ f = "per_page" /\ a[f].t = "number" /\ a[f].n > 100
    \/ /\ f \in {"status", "orderby", "order"}
       /\ a[f].t = "string"
       /\ a[f].s \notin EnumOf(cmd, f)

\* C14: an invalid call is answered with a failure envelope at once, no
\* request is built and the count of backend client invocations does not
\* change.
InvalidCallNeverReachesBackend ==
  [][(dpc = "idle" /\ disp'.dpc # "idle"
       /\ InvalidCall(disp'.dcall.cmd, disp'.dcall.args))
     => /\ disp'.dpc = "done"
        /\ disp'.envelope.isError
        /\ disp'.envelope.kind = "message"
        /\ disp'.request = NoRequest
        /\ disp'.wpCalls = wpCalls]_vars

\* C14 witness: after a valid call reached the backend an invalid call was
\* answered with a failure envelope, and the backend count still is one
InvalidCallAnswered ==
  /\ dpc = "done"
  /\ InvalidCall(dcall.cmd, dcall.args)
  /\ envelope.isError
  /\ dispatched = 2
  /\ wpCalls = 1

\* the handler of the call being handled has run
HandlerRan == dpc # "idle" /\ request # NoRequest

\* C15 as stated: the flag is set exactly when the backend client call
\* raised, and the message then carries the backend's status and reason.
FlagIffClientRaised ==
  (HandlerRan /\ dpc = "done")
  => /\ envelope.isError <=> ClientRaises(outcome)
     /\ envelope.isError
         => /\ envelope.kind = "message"
            /\ envelope.status = WpStatus(outcome)
            /\ envelope.reason = WpReason(outcome)
     /\ ~envelope.isError => envelope.kind = "result"

\* C15 amended: no envelope exists before the handler returns and exactly
\* one after; the flag is set exactly when the backend client call raised
\* or shaping the backend's answer threw, the payload then is a message,
\* which carries the backend's status and reason when the backend answered
\* with an error status; otherwise the flag is absent and the payload is
\* the result.
FlagIffHandlerCaught ==
  HandlerRan
  => /\ dpc # "done" => envelope = NoEnvelope
     /\ dpc = "done"
         => /\ envelope.isError
                 <=> (ClientRaises(outcome) \/ ShapingThrows(outcome))
            /\ envelope.isError => envelope.kind = "message"
            /\ outcome \in HttpErrors
                 => /\ envelope.status = WpStatus(outcome)
                    /\ envelope.reason = WpReason(outcome)
            /\ ~envelope.isError => envelope.kind = "result"

\* C15 witness: the backend answered 2xx with an unexpected shape and the
\* handler returned an error envelope
ShapeErrorEnveloped ==
  /\ HandlerRan
  /\ dpc = "done"
  /\ outcome = "badShape"
  /\ envelope.isError

\* the defaults the tool descriptions document
ApplyDefaults(cmd, a) ==
  CASE cmd = "listPosts" ->
         [a EXCEPT !.page = Nullish(@, Num(1)),
                   !.per_page = Nullish(@, Num(10)),
                   !.orderby = Nullish(@, Str("date")),
                   !.order = Nullish(@, Str("desc"))]
    [] cmd = "createPost" -> [a EXCEPT !.status = Nullish(@, Str("draft"))]
    [] cmd \in Deletes -> [a EXCEPT !.force = Nullish(@, Bool(FALSE))]
    [] OTHER -> a

\* C16: the request the backend client issues for a valid call is the
\* request it issues when the caller passes every documented default
\* explicitly.
DefaultsReachBackend ==
  HandlerRan
  => request = ClientRequest(dcall.cmd,
                             Parsed(dcall.cmd,
                                    ApplyDefaults(dcall.cmd, dcall.args)))

\* C17: while a command is handled a log record names the command, and no
\* log record prints a post content parameter.
LogsNameCommandAndOmitContent ==
  HandlerRan
  => /\ \E i \in 1..Len(log) : log[i].cmd = dcall.cmd
     /\ \A i \in 1..Len(log) : log[i].content = Absent

\* ---- process ----

\* sessions created and not yet torn down or closed, per transport family
LiveStreamable ==
  {p \in 1..Len(pairs) : pairs[p].sessionId # NoId /\ ~pairs[p].closed}
LiveLegacy == {t \in DOMAIN sseResponse : sseResponse[t]}

\* C18: GET /health reports for each store the number of live sessions of
\* its transport family and changes neither store.
HealthCountsLiveSessions ==
  [][GetHealth
     => /\ resp'.streamable = Cardinality(LiveStreamable)
        /\ resp'.legacy = Cardinality(LiveLegacy)
        /\ UNCHANGED <<streamableSessions, legacySessions>>]_vars

\* required configuration is missing: no base URL, or neither a token nor a
\* username together with an application password
ConfigMissing(e) ==
  \/ e.WORDPRESS_BASE_URL # "set"
  \/ /\ e.WORDPRESS_TOKEN # "set"
     /\ (e.WORDPRESS_USERNAME # "set" \/ e.WORDPRESS_APP_PASSWORD # "set")

\* C19: started with required configuration missing the process goes to the
\* failed-exit state; before the listener is bound and after a failed exit
\* no route is served, no session is created and nothing else happens.
MissingConfigAbortsStartup ==
  [][/\ proc = "starting"
         => \A e \in Envs : (mainWith(e) /\ ConfigMissing(e)) => proc' = "exit1"
     /\ proc # "listening"
         => /\ UNCHANGED <<sessVars, disp>>
            /\ resp.route = "none"
            /\ nextId = 0
     /\ proc # "exit1"]_vars

\* C19 witness: the process has exited with failure and has served nothing
StartupAborted ==
  /\ proc = "exit1"
  /\ resp.route = "none"
  /\ DOMAIN streamableSessions = {}
  /\ DOMAIN legacySessions = {}

\* the session ids each adapter has issued
IssuedByStreamable(ps) == {ps[p].sessionId : p \in 1..Len(ps)} \ {NoId}
IssuedByLegacy(streams) == DOMAIN streams

\* C20: the streamable store changes only in POST /mcp and DELETE /mcp, the
\* legacy store only in GET /sse and at the close of a stream, and never
\* both in one step; POST /messages, GET /mcp and a POST /mcp routed to a
\* stored session change neither; an id issued by one adapter is refused by
\* the guards of the other adapter's routes.
StoresIndependent ==
  [][/\ streamableSessions' # streamableSessions
         => /\ legacySessions' = legacySessions
            /\ \E h \in ReqIds :
                 \/ DeleteMcp(h)
                 \/ \E b \in McpBodies, a \in BOOLEAN : PostMcp(h, b, a)
     /\ legacySessions' # legacySessions
         => /\ streamableSessions' = streamableSessions
            /\ (GetSse \/ \E t \in Ids : SseClose(t))
     /\ resp'.route = "POST /messages"
         => \/ UNCHANGED <<streamableSessions, legacySessions>>
            \/ \A q \in ReqIds, b \in MsgBodies : ~PostMessages(q, b)
     /\ resp'.route = "GET /mcp"
         => \/ UNCHANGED <<streamableSessions, legacySessions>>
            \/ \A h \in ReqIds : ~GetMcp(h)
     /\ resp'.route = "POST /mcp"
         => \/ UNCHANGED <<streamableSessions, legacySessions>>
            \/ \A h \in DOMAIN streamableSessions, b \in McpBodies,
                  a \in BOOLEAN : ~PostMcp(h, b, a)
     /\ (pairs' # pairs \/ legacySessions' # legacySessions)
         => \A q \in IssuedByStreamable(pairs') :
              LegacyRejects(legacySessions', q)
     /\ (sseResponse' # sseResponse
           \/ streamableSessions' # streamableSessions)
         => \A h \in IssuedByLegacy(sseResponse') :
              /\ StreamableRejects(streamableSessions', h)
              /\ ~StreamableRoutes(streamableSessions', h)]_vars

\* C20 witness: each adapter has issued an id, both stores hold a session
\* and a POST /messages has been refused
BothStoresPopulated ==
  /\ IssuedByStreamable(pairs) # {}
  /\ IssuedByLegacy(sseResponse) # {}
  /\ DOMAIN streamableSessions # {}
  /\ DOMAIN legacySessions # {}
  /\ resp = InvalidSession("POST /messages")

\* ---- store contents ----

\* the entries of a store under which the session s is found
EntriesOf(store, s) == {k \in DOMAIN store : store[k] = s}

\* the streamable sessions (pairs whose transport has a session id and is not
\* closed) and the legacy sessions (streams still attached) of a state
StreamableSessionsOf(ps) ==
  {p \in 1..Len(ps) : ps[p].sessionId # NoId /\ ~ps[p].closed}
LegacySessionsOf(streams) == {t \in DOMAIN streams : streams[t]}

\* C21: after every step no server/transport pair is found under two entries
\* of a store, every session is found under exactly one entry of its store,
\* an entry that is new in a store has an id never drawn before and a pair
\* or transport constructed in this very step.
SessionsUniquelyStored ==
  [][/\ \A p \in 1..Len(pairs') :
          Cardinality(EntriesOf(streamableSessions', p)) <= 1
     /\ \A t \in DOMAIN sseResponse' :
          Cardinality(EntriesOf(legacySessions', t)) <= 1
     /\ \A t \in LegacySessionsOf(sseResponse') :
          Cardinality(EntriesOf(legacySessions', t)) = 1
     /\ \A p \in StreamableSessionsOf(pairs') :
          Cardinality(EntriesOf(streamableSessions', p)) = 1
     /\ \A k \in DOMAIN streamableSessions' \ DOMAIN streamableSessions :
          /\ k > nextId
          /\ streamableSessions'[k] > Len(pairs)
     /\ \A k \in DOMAIN legacySessions' \ DOMAIN legacySessions :
          /\ k > nextId
          /\ legacySessions'[k] \notin DOMAIN sseResponse]_vars

\* C22: after every step each streamable entry is keyed by the session id
\* its own transport reports, each legacy entry by its transport's session
\* id, and no entry is keyed by undefined; a stream that closes and a
\* transport that closes take exactly their own entry out of their store.
KeysAgreeWithTransports ==
  [][/\ streamableSessions' # streamableSessions
         => \A k \in DOMAIN streamableSessions' :
              /\ k # NoId
              /\ streamableSessions'[k] \in 1..Len(pairs')
              /\ pairs'[streamableSessions'[k]].sessionId = k
     /\ pairs' # pairs
         => /\ \A k \in DOMAIN streamableSessions' :
                 pairs'[streamableSessions'[k]].sessionId = k
            /\ \A p \in 1..Len(pairs) :
                 (~pairs[p].closed /\ pairs'[p].closed)
                 => DOMAIN streamableSessions'
                      = DOMAIN streamableSessions \ {pairs[p].sessionId}
     /\ legacySessions' # legacySessions
         => \A k \in DOMAIN legacySessions' :
              k # NoId /\ legacySessions'[k] = k
     /\ sseResponse' # sseResponse
         => \A t \in DOMAIN sseResponse :
              (sseResponse[t] /\ ~sseResponse'[t])
              => DOMAIN legacySessions' = DOMAIN legacySessions \ {t}]_vars

\* C22 witness: both stores have held a session and each has lost exactly
\* that entry to its close handler
BothCloseHandlersRan ==
  /\ \E p \in 1..Len(pairs) : pairs[p].closed /\ pairs[p].sessionId # NoId
  /\ \E t \in DOMAIN sseResponse : ~sseResponse[t]
  /\ DOMAIN streamableSessions = {}
  /\ DOMAIN legacySessions = {}

====
